---- MODULE Spec2Model ----
(***************************************************************************)
(* Model of the JoystickGremlin profile data model (gremlin/profile.py)    *)
(* of the custom-module variable system (gremlin/custom_module.py) and of   *)
(* the module management controller (gremlin/ui/module_management.py).     *)
(*                                                                         *)
(* Encoding of Python values                                               *)
(*   None / a present value x      <<>> / <<x>>   (None, Some(x))          *)
(*   dict (insertion ordered)      sequence of <<key, value>> pairs        *)
(*   int input id n                <<n>>                                   *)
(*   keyboard input id (n, b)      <<n, b>>                                *)
(*   a number x (int or float)     the integer 2 * x (halves), Num(x)      *)
(*   an XML attribute              None when absent, Some(string) else     *)
(***************************************************************************)
EXTENDS Integers, Sequences, FiniteSets, TLC

VARIABLES
    devices,    \* Profile.devices: dict key -> Device
    imports,    \* Profile.imports: list of module paths
    modules,    \* Profile.modules: list of Module, each with its instances
    doc,        \* the profile document on disk: None or Some(document)
    registry,   \* variable_registry._registry
    variable,   \* the variable object built by the last constructor call
    ret,        \* the value returned by the last call
    exc,        \* the exception the last call raised, "none" when it returned
    hist        \* history of the calls made (what the properties speak about)

vars == <<devices, imports, modules, doc, registry, variable, ret, exc, hist>>

(***************************************************************************)
(* Python values                                                           *)
(***************************************************************************)
None == <<>>
Some(x) == <<x>>
IsNone(v) == v = <<>>
Val(v) == v[1]

\* dict helpers: a dict is a sequence of <<key, value>> in insertion order.
DictKeys(d) == {d[i][1] : i \in 1..Len(d)}
DictHas(d, k) == \E i \in 1..Len(d) : d[i][1] = k
DictIndex(d, k) == CHOOSE i \in 1..Len(d) : d[i][1] = k
DictGet(d, k) == d[DictIndex(d, k)][2]
DictSet(d, k, v) ==
    IF DictHas(d, k) THEN [d EXCEPT ![DictIndex(d, k)] = <<k, v>>]
    ELSE Append(d, <<k, v>>)
DictDel(d, k) == SelectSeq(d, LAMBDA p : p[1] # k)
DictValues(d) == [i \in 1..Len(d) |-> d[i][2]]

\* str(int) and int(str) on decimal strings.
Digit == <<"0", "1", "2", "3", "4", "5", "6", "7", "8", "9">>
RECURSIVE IntToStr(_)
IntToStr(n) ==
    IF n < 10 THEN Digit[n + 1]
    ELSE IntToStr(n \div 10) \o Digit[(n % 10) + 1]
\* The integers whose decimal form the documents of the model can hold.
ParsableInts == 0..40
IntStrings == [n \in ParsableInts |-> IntToStr(n)]
IsIntStr(s) == \E n \in ParsableInts : IntStrings[n] = s
StrToInt(s) == CHOOSE n \in ParsableInts : IntStrings[n] = s
\* str(x) of an optional int: str(None) is "None".
StrOfOptInt(v) == IF IsNone(v) THEN "None" ELSE IntStrings[Val(v)]
StrOfBool(b) == IF b THEN "True" ELSE "False"
\* str.lower() on the attribute texts of the model.
Lower(s) ==
    CASE s \in {"True", "TRUE", "true"} -> "true"
      [] s \in {"False", "FALSE", "false"} -> "false"
      [] OTHER -> s

\* The result of a call that may raise: exc is "none" or the exception's name.
Ok(v) == [exc |-> "none", val |-> v]
Raise(e) == [exc |-> e, val |-> None]
\* F applied to the value of x, x being evaluated once.
With(x, F(_)) == CHOOSE y \in {F(v) : v \in {x}} : TRUE
\* The rest of a function body, F, after a call with result x: an exception
\* of the call ends the body.
Try(x, F(_)) ==
    With(x, LAMBDA r : IF r.exc # "none" THEN Raise(r.exc) ELSE F(r.val))

(***************************************************************************)
(* profile.py: module level                                                *)
(***************************************************************************)
InputTypes == <<"JoystickAxis", "JoystickButton", "JoystickHat", "Keyboard">>
InputTypeSet == {InputTypes[i] : i \in 1..Len(InputTypes)}

tag_to_input_type(tag) ==
    CASE Lower(tag) = "axis" -> Ok("JoystickAxis")
      [] Lower(tag) = "button" -> Ok("JoystickButton")
      [] Lower(tag) = "hat" -> Ok("JoystickHat")
      [] Lower(tag) = "key" -> Ok("Keyboard")
      [] OTHER -> Raise("ProfileError")

input_type_to_tag(t) ==
    CASE t = "JoystickAxis" -> "axis"
      [] t = "JoystickButton" -> "button"
      [] t = "JoystickHat" -> "hat"
      [] t = "Keyboard" -> "key"

\* A _parse_bool that takes an absent attribute for False.
parse_bool_defaulting(value) ==
    IF IsNone(value) THEN Ok(FALSE)
    ELSE IF IsIntStr(Val(value)) THEN
        IF StrToInt(Val(value)) \in {0, 1} THEN Ok(StrToInt(Val(value)) = 1)
        ELSE Raise("ProfileError")
    ELSE IF Lower(Val(value)) \in {"true", "false"}
        THEN Ok(Lower(Val(value)) = "true")
    ELSE Raise("ProfileError")

\* _parse_bool(value): value is an attribute, None when the attribute is absent.
parse_bool(value) ==
    IF IsNone(value) THEN Raise("ProfileError")          \* int(None): TypeError
    ELSE IF IsIntStr(Val(value)) THEN
        IF StrToInt(Val(value)) \in {0, 1} THEN Ok(StrToInt(Val(value)) = 1)
        ELSE Raise("ProfileError")
    ELSE IF Lower(Val(value)) \in {"true", "false"}       \* int(value): ValueError
        THEN Ok(Lower(Val(value)) = "true")
    ELSE Raise("ProfileError")

\* int(node.get(attr))
parse_int(value) ==
    IF IsNone(value) THEN Raise("TypeError")
    ELSE IF IsIntStr(Val(value)) THEN Ok(StrToInt(Val(value)))
    ELSE Raise("ValueError")

action_lookup == {"macro", "remap", "response-curve", "cycle-modes",
                  "pause-action", "resume-action", "switch-mode",
                  "switch-to-previous-mode"}

(***************************************************************************)
(* InputItem                                                               *)
(***************************************************************************)
NewInputItem(t, i) ==
    [input_type |-> t, input_id |-> i, always_execute |-> FALSE, actions |-> <<>>]

\* The tags InputItem.from_xml prints as "Unknown node: <tag>".
InputItem_unknown_nodes(node) ==
    SelectSeq(node.actions, LAMBDA a : a \notin action_lookup)

\* An InputItem.from_xml that leaves the loop at an unknown tag ("break").
InputItem_from_xml_break(node) ==
    Try(tag_to_input_type(node.tag), LAMBDA t :
    Try(parse_int(node.id), LAMBDA id :
    Try(parse_bool(IF IsNone(node.always_execute) THEN Some("False")
                   ELSE node.always_execute), LAMBDA ae :
    Try(IF t = "Keyboard" THEN parse_bool(node.extended) ELSE Ok(FALSE),
        LAMBDA ext :
    Ok([input_type |-> t,
        input_id |-> IF t = "Keyboard" THEN <<id, ext>> ELSE <<id>>,
        always_execute |-> ae,
        actions |-> SubSeq(node.actions, 1,
                           CHOOSE k \in 0..Len(node.actions) :
                              /\ \A j \in 1..k : node.actions[j] \in action_lookup
                              /\ k < Len(node.actions)
                                 => node.actions[k + 1] \notin action_lookup)])))))

\* InputItem.from_xml(node)
InputItem_from_xml(node) ==
    Try(tag_to_input_type(node.tag), LAMBDA t :
    Try(parse_int(node.id), LAMBDA id :
    Try(parse_bool(IF IsNone(node.always_execute) THEN Some("False")
                   ELSE node.always_execute), LAMBDA ae :
    Try(IF t = "Keyboard" THEN parse_bool(node.extended) ELSE Ok(FALSE),
        LAMBDA ext :
    Ok([input_type |-> t,
        input_id |-> IF t = "Keyboard" THEN <<id, ext>> ELSE <<id>>,
        always_execute |-> ae,
        actions |-> SelectSeq(node.actions, LAMBDA a : a \in action_lookup)])))))

\* InputItem.to_xml()
InputItem_to_xml(item) ==
    [tag |-> input_type_to_tag(item.input_type),
     id |-> Some(IntStrings[item.input_id[1]]),
     extended |-> IF item.input_type = "Keyboard"
                  THEN Some(StrOfBool(item.input_id[2])) ELSE None,
     always_execute |-> IF item.always_execute THEN Some("True") ELSE None,
     actions |-> item.actions]

(***************************************************************************)
(* Mode                                                                    *)
(***************************************************************************)
\* Mode(parent) followed by the assignment of its name.
NewMode(name) == [name |-> name, config |-> [t \in InputTypeSet |-> <<>>]]

\* Mode.from_xml(node) on a Mode whose config is cfg: the children in order.
RECURSIVE Mode_parse_items(_, _)
Mode_parse_items(cfg, items) ==
    IF items = <<>> THEN Ok(cfg)
    ELSE Try(InputItem_from_xml(Head(items)), LAMBDA item :
            Mode_parse_items(
                [cfg EXCEPT ![item.input_type] = DictSet(@, item.input_id, item)],
                Tail(items)))

Mode_from_xml(node) ==
    Try(Mode_parse_items(NewMode(node.name).config, node.items), LAMBDA cfg :
        Ok([name |-> node.name, config |-> cfg]))

RECURSIVE SeqMap(_, _)
SeqMap(F(_), s) == IF s = <<>> THEN <<>> ELSE <<F(Head(s))>> \o SeqMap(F, Tail(s))

\* Mode.to_xml(): the items of every input type, in the order of _config.
Mode_to_xml(mode) ==
    LET ItemsOf(t) == SeqMap(InputItem_to_xml, DictValues(mode.config[t]))
    IN  [name |-> mode.name,
         items |-> ItemsOf(InputTypes[1]) \o ItemsOf(InputTypes[2])
                   \o ItemsOf(InputTypes[3]) \o ItemsOf(InputTypes[4])]

(***************************************************************************)
(* Device                                                                  *)
(***************************************************************************)
\* A constructor that creates no mode.
NewDevice_bare ==
    [name |-> None, hardware_id |-> None, windows_id |-> None, type |-> None,
     modes |-> <<>>]

\* Device(parent): the constructor creates the empty "global" mode.
NewDevice ==
    [name |-> None, hardware_id |-> None, windows_id |-> None, type |-> None,
     modes |-> <<<<"global", NewMode("global")>>>>]

RECURSIVE Device_parse_modes(_, _)
Device_parse_modes(modes, nodes) ==
    IF nodes = <<>> THEN Ok(modes)
    ELSE Try(Mode_from_xml(Head(nodes)), LAMBDA mode :
            Device_parse_modes(DictSet(modes, mode.name, mode), Tail(nodes)))

\* Device.from_xml(node) on a new Device.  Device has no attribute "index":
\* reading self.index raises AttributeError.
Device_from_xml(node) ==
    Try(parse_int(Some(node.id)), LAMBDA hid :
    Try(parse_int(Some(node.windows_id)), LAMBDA wid :
    Try(IF node.name = Some("keyboard") THEN Raise("AttributeError")
        ELSE Ok(Some("Joystick")), LAMBDA type :
    Try(Device_parse_modes(NewDevice.modes, node.modes), LAMBDA modes :
    Ok([name |-> node.name, hardware_id |-> Some(hid),
        windows_id |-> Some(wid), type |-> type, modes |-> modes])))))

\* Device.to_xml()
Device_to_xml(device) ==
    [name |-> device.name,
     id |-> StrOfOptInt(device.hardware_id),
     windows_id |-> StrOfOptInt(device.windows_id),
     modes |-> SeqMap(Mode_to_xml, DictValues(device.modes))]

(***************************************************************************)
(* Profile                                                                 *)
(***************************************************************************)
\* The first loop of Profile.from_xml: one Device per device element, stored
\* under device.index.  Device defines no attribute "index", so the store
\* raises AttributeError (when Device.from_xml has not raised before it).
Profile_parse_devices(devs, nodes) ==
    IF nodes = <<>> THEN Ok(devs)
    ELSE Try(Device_from_xml(Head(nodes)), LAMBDA device :
            Raise("AttributeError"))

\* The modes reconciliation creates on a new device: one per name of the
\* mode list that the device does not hold yet.
RECURSIVE Reconcile_modes(_, _)
Reconcile_modes(modes, mode_list) ==
    IF mode_list = <<>> THEN modes
    ELSE Reconcile_modes(
            IF ~DictHas(modes, Head(mode_list))
            THEN DictSet(modes, Head(mode_list), NewMode(Head(mode_list)))
            ELSE modes,
            Tail(mode_list))

\* The device reconciliation adds for the live device dev.
Reconcile_device(dev, mode_list) ==
    [name |-> Some(dev.name), hardware_id |-> Some(dev.hardware_id),
     windows_id |-> Some(dev.windows_id), type |-> Some("Joystick"),
     modes |-> Reconcile_modes(NewDevice.modes, mode_list)]

\* A reconciliation that does not test "dev.device_id not in self.devices":
\* it stores a new entry for every live non-virtual device.
RECURSIVE Reconcile_replacing(_, _, _)
Reconcile_replacing(devs, live, mode_list) ==
    IF live = <<>> THEN devs
    ELSE LET dev == Head(live)
         IN  Reconcile_replacing(
                IF ~dev.is_virtual
                THEN DictSet(devs, dev.device_id, Reconcile_device(dev, mode_list))
                ELSE devs,
                Tail(live), mode_list)

\* The second loop of Profile.from_xml: the reconciliation pass over the
\* devices gremlin.util.joystick_devices() returns.
RECURSIVE Reconcile(_, _, _)
Reconcile(devs, live, mode_list) ==
    IF live = <<>> THEN devs
    ELSE LET dev == Head(live)
         IN  Reconcile(
                IF ~dev.is_virtual /\ ~DictHas(devs, dev.device_id)
                THEN DictSet(devs, dev.device_id, Reconcile_device(dev, mode_list))
                ELSE devs,
                Tail(live), mode_list)

\* A from_xml that empties self.devices before it loads.
Profile_from_xml_clearing(devs, imps, file, live, mode_list) ==
    IF IsNone(file) THEN Raise("FileNotFoundError")
    ELSE Try(Profile_parse_devices(<<>>, Val(file).devices), LAMBDA parsed :
            Ok([devices |-> Reconcile(parsed, live, mode_list),
                imports |-> imps \o Val(file).imports]))

\* Profile.from_xml(fname) on a profile holding devs and imps; file is the
\* content of fname (None when there is no such file).
Profile_from_xml(devs, imps, file, live, mode_list) ==
    IF IsNone(file) THEN Raise("FileNotFoundError")
    ELSE Try(Profile_parse_devices(devs, Val(file).devices), LAMBDA parsed :
            Ok([devices |-> Reconcile(parsed, live, mode_list),
                imports |-> imps \o Val(file).imports]))

\* Profile.to_xml(fname): ElementTree.tostring raises TypeError on an
\* attribute that is None, before the file is opened.
Profile_to_xml(devs, imps) ==
    IF \E i \in 1..Len(devs) : IsNone(devs[i][2].name) THEN Raise("TypeError")
    ELSE Ok([devices |-> SeqMap(Device_to_xml, DictValues(devs)),
             imports |-> imps])

\* A get_device_modes that does not test "hardware_id not in self.devices".
Profile_get_device_modes_fresh(devs, hardware_id, device_name) ==
    DictSet(devs, hardware_id,
            [NewDevice EXCEPT
                !.name = device_name,
                !.hardware_id = Some(hardware_id),
                !.type = IF device_name = Some("keyboard")
                         THEN Some("Keyboard") ELSE Some("Joystick")])

\* Profile.get_device_modes(hardware_id, device_name): the devices after it.
Profile_get_device_modes(devs, hardware_id, device_name) ==
    IF ~DictHas(devs, hardware_id)
    THEN DictSet(devs, hardware_id,
            [NewDevice EXCEPT
                !.name = device_name,
                !.hardware_id = Some(hardware_id),
                !.type = IF device_name = Some("keyboard")
                         THEN Some("Keyboard") ELSE Some("Joystick")])
    ELSE devs

\* A get_data that stores a new item whether or not the slot holds one.
Mode_get_data_fresh(mode, t, i) ==
    [mode EXCEPT !.config[t] = DictSet(@, i, NewInputItem(t, i))]

\* Mode.get_data(input_type, input_id): the mode after it.
Mode_get_data(mode, t, i) ==
    IF ~DictHas(mode.config[t], i)
    THEN [mode EXCEPT !.config[t] = DictSet(@, i, NewInputItem(t, i))]
    ELSE mode

\* Mode.set_data(input_type, input_id, data)
Mode_set_data(mode, t, i, data) ==
    [mode EXCEPT !.config[t] = DictSet(@, i, data)]

\* Mode.delete_data(input_type, input_id): del raises KeyError on a missing id.
Mode_delete_data(mode, t, i) ==
    IF DictHas(mode.config[t], i)
    THEN Ok([mode EXCEPT !.config[t] = DictDel(@, i)])
    ELSE Raise("KeyError")

(***************************************************************************)
(* custom_module.py: stored values, clamp_value, VariableRegistry          *)
(*                                                                         *)
(* A stored value is None, a number [num |-> 2 * x] or a string            *)
(* [str |-> s].  The fields of a numeric variable are plain numbers.       *)
(***************************************************************************)
Num(x) == 2 * x
NumVal(h) == [num |-> h]
StrVal(s) == [str |-> s]
IsNum(v) == DOMAIN v = {"num"}
IsStr(v) == DOMAIN v = {"str"}

\* The builtins max(a, b) and min(a, b): the first argument unless the second
\* is strictly greater (smaller).
PyMax(a, b) == IF b > a THEN b ELSE a
PyMin(a, b) == IF b < a THEN b ELSE a

\* A clamp that does not swap its bounds, and one that forgets the upper one.
clamp_unswapped(value, min_val, max_val) ==
    PyMin(max_val, PyMax(min_val, value))
clamp_lower_only(value, min_val, max_val) ==
    PyMax(IF min_val > max_val THEN max_val ELSE min_val, value)

clamp_value(value, min_val, max_val) ==
    LET lo == IF min_val > max_val THEN max_val ELSE min_val
        hi == IF min_val > max_val THEN min_val ELSE max_val
    IN  PyMin(hi, PyMax(lo, value))

\* dict as a function: d[k] = v, creating the key when missing.
FunSet(f, k, v) == [x \in (DOMAIN f) \cup {k} |-> IF x = k THEN v ELSE f[x]]

\* VariableRegistry._get_instance(module, name): the registry after the call
\* (both missing levels are created).
Registry_get_instance(reg, module, name) ==
    LET r1 == IF module \notin DOMAIN reg THEN FunSet(reg, module, <<>>) ELSE reg
    IN  IF name \notin DOMAIN r1[module]
        THEN [r1 EXCEPT ![module] = FunSet(@, name, <<>>)]
        ELSE r1

\* A set that keeps the value a key already has (dict.setdefault).
Registry_set_first(reg, module, name, key, value) ==
    LET r == Registry_get_instance(reg, module, name)
    IN  IF key \in DOMAIN r[module][name] THEN r
        ELSE [r EXCEPT ![module][name] = FunSet(@, key, value)]

\* VariableRegistry.set(module, name, key, value): the registry after the call.
Registry_set(reg, module, name, key, value) ==
    [Registry_get_instance(reg, module, name) EXCEPT
        ![module][name] = FunSet(@, key, value)]

\* VariableRegistry.get(module, name, key): the value returned and the
\* registry after the call.
Registry_get(reg, module, name, key) ==
    LET r == Registry_get_instance(reg, module, name)
    IN  [ret |-> IF key \in DOMAIN r[module][name] THEN r[module][name][key]
                 ELSE None,
         registry |-> r]

\* VariableRegistry.clear()
Registry_clear == <<>>

\* int(x) and float(x) of a stored value (_cast_variable).  A float string has
\* the form "<int>.5" or "<int>.0".
Trunc(h) == IF h >= 0 THEN (h \div 2) * 2 ELSE 0 - (((0 - h) \div 2) * 2)
FloatToStr(h) == IntToStr(h \div 2) \o (IF h % 2 = 1 THEN ".5" ELSE ".0")
ParsableFloats == 0..40
FloatStrings == [h \in ParsableFloats |-> FloatToStr(h)]
IsFloatStr(s) == \E h \in ParsableFloats : FloatStrings[h] = s
StrToFloat(s) == CHOOSE h \in ParsableFloats : FloatStrings[h] = s

cast_int(v) ==
    IF IsNum(v) THEN Ok(Trunc(v.num))
    ELSE IF IsIntStr(v.str) THEN Ok(Num(StrToInt(v.str)))
    ELSE Raise("ValueError")

cast_float(v) ==
    IF IsNum(v) THEN Ok(v.num)
    ELSE IF IsIntStr(v.str) THEN Ok(Num(StrToInt(v.str)))
    ELSE IF IsFloatStr(v.str) THEN Ok(StrToFloat(v.str))
    ELSE Raise("ValueError")

cast_variable(variable_type, v) ==
    IF variable_type = "Int" THEN cast_int(v) ELSE cast_float(v)

(***************************************************************************)
(* custom_module.py: get_variable_definitions                              *)
(***************************************************************************)
\* The loop of get_variable_definitions over module.__dict__.items(): values
\* are the module's globals in order, each an AbstractVariable with a label
\* or something else.  On a label already present the code evaluates
\* logging.get_logger, which the logging module does not define:
\* AttributeError.
RECURSIVE collect_variables(_, _)
collect_variables(variables, values) ==
    IF values = <<>> THEN Ok(DictValues(variables))
    ELSE IF ~Head(values).is_variable
    THEN collect_variables(variables, Tail(values))
    ELSE IF DictHas(variables, Head(values).label)
    THEN Raise("AttributeError")
    ELSE collect_variables(
            DictSet(variables, Head(values).label, Head(values)),
            Tail(values))

\* get_variable_definitions(fname): isfile tells whether fname is a file,
\* values are the globals of the module it holds.
get_variable_definitions(isfile, values) ==
    IF ~isfile THEN Ok(<<>>) ELSE collect_variables(<<>>, values)

(***************************************************************************)
(* custom_module.py: numeric variables                                     *)
(***************************************************************************)
\* The built-in defaults of IntegerVariable and FloatVariable.
IntDefault == 0
IntMin == 0
IntMax == 10
FloatDefault == 0
FloatMin == -1
FloatMax == 1

\* An _init_numerical that overwrites the declared fields.
init_numerical_overriding(var, default_value, min_value, max_value) ==
    [var EXCEPT !.default_value = Some(default_value),
                !.min_value = Some(min_value), !.max_value = Some(max_value)]

\* _init_numerical(var, default_value, min_value, max_value): every field
\* that is None takes the built-in value.
init_numerical(var, default_value, min_value, max_value) ==
    [var EXCEPT
        !.default_value = IF IsNone(@) THEN Some(default_value) ELSE @,
        !.min_value = IF IsNone(@) THEN Some(min_value) ELSE @,
        !.max_value = IF IsNone(@) THEN Some(max_value) ELSE @]

\* IntegerVariable._initialize_variable / FloatVariable._initialize_variable
initialize_variable(var) ==
    IF var.variable_type = "Int"
    THEN init_numerical(var, Num(IntDefault), Num(IntMin), Num(IntMax))
    ELSE init_numerical(var, Num(FloatDefault), Num(FloatMin), Num(FloatMax))

\* NumericalVariable._load_from_registry(identifier): the variable and the
\* registry after the call; from_registry tells that the value is a stored one.
load_from_registry(var, reg, identifier) ==
    IF IsNone(identifier)
    THEN [exc |-> "none", registry |-> reg, from_registry |-> FALSE,
          var |-> [var EXCEPT !.value =
                     Some(clamp_value(Val(var.default_value),
                                      Val(var.min_value), Val(var.max_value)))]]
    ELSE With(Registry_get(reg, Val(identifier)[1], Val(identifier)[2],
                           var.label), LAMBDA g :
         With(IF IsNone(g.ret) THEN Ok(Val(var.default_value))
              ELSE cast_variable(var.variable_type, g.ret), LAMBDA c :
            IF c.exc # "none"
            THEN [exc |-> c.exc, registry |-> g.registry,
                  from_registry |-> FALSE, var |-> var]
            ELSE [exc |-> "none", registry |-> g.registry,
                  from_registry |-> ~IsNone(g.ret),
                  var |-> [var EXCEPT !.value =
                             Some(clamp_value(c.val, Val(var.min_value),
                                              Val(var.max_value)))]]))

\* NumericalVariable.__init__ as IntegerVariable and FloatVariable run it;
\* identifier is the "identifier" global of the declaring module, or None.
NumericalVariable_init(variable_type, label, default_value, min_value, max_value, reg, identifier) ==
    load_from_registry(
        initialize_variable(
            [variable_type |-> variable_type, label |-> label, value |-> None,
             default_value |-> default_value, min_value |-> min_value,
             max_value |-> max_value]),
        reg, identifier)

(***************************************************************************)
(* custom_module.py: the other variables that hydrate themselves           *)
(***************************************************************************)
\* str(x) of a stored value or of None (_cast_variable of String).
cast_str(v) ==
    IF IsNone(v) THEN StrVal("None")
    ELSE IF IsStr(v) THEN v
    ELSE IF v.num % 2 = 0 THEN StrVal(IntToStr(v.num \div 2))
    ELSE StrVal(FloatToStr(v.num))

\* StringVariable.__init__ and its _load_from_registry: with an identifier
\* the value is str() of what the registry returns, None included.
StringVariable_init(label, default_value, reg, identifier) ==
    IF IsNone(identifier)
    THEN [exc |-> "none", registry |-> reg, from_registry |-> FALSE,
          var |-> [variable_type |-> "String", label |-> label,
                   default_value |-> default_value, value |-> default_value]]
    ELSE With(Registry_get(reg, Val(identifier)[1], Val(identifier)[2], label),
              LAMBDA g :
            [exc |-> "none", registry |-> g.registry,
             from_registry |-> ~IsNone(g.ret),
             var |-> [variable_type |-> "String", label |-> label,
                      default_value |-> default_value,
                      value |-> cast_str(g.ret)]])

\* ModeVariable.__init__: it reads profile.mode_list, which profile.py does
\* not define, before it looks for the identifier: AttributeError.
ModeVariable_init(label, reg, identifier) ==
    [exc |-> "AttributeError", registry |-> reg, from_registry |-> FALSE,
     var |-> None]

\* PhysicalInputVariable.__init__ and its _load_from_registry: the default
\* is None, and with an identifier the value is what the registry returns.
PhysicalInputVariable_init(label, reg, identifier) ==
    IF IsNone(identifier)
    THEN [exc |-> "none", registry |-> reg, from_registry |-> FALSE,
          var |-> [variable_type |-> "PhysicalInput", label |-> label,
                   default_value |-> None, value |-> None]]
    ELSE With(Registry_get(reg, Val(identifier)[1], Val(identifier)[2], label),
              LAMBDA g :
            [exc |-> "none", registry |-> g.registry,
             from_registry |-> ~IsNone(g.ret),
             var |-> [variable_type |-> "PhysicalInput", label |-> label,
                      default_value |-> None, value |-> g.ret]])

(***************************************************************************)
(* Bounds and the inputs the actions draw from                             *)
(***************************************************************************)
MaxEdits == 2        \* edits of the profile in one run
MaxImports == 4      \* length of Profile.imports
MaxActions == 2      \* length of an action list
MaxSets == 2         \* registry set calls in one run
MaxNum == 3          \* clamp_value is applied to numbers in -MaxNum..MaxNum
MaxGlobals == 3      \* globals of a module get_variable_definitions reads

HardwareIds == {1, 2}
DeviceNames == {None, Some("keyboard"), Some("stick")}
ModeNames == {"global", "alt"}
EditTypes == {"JoystickButton", "Keyboard"}
InputIds(t) == IF t = "Keyboard" THEN {<<30, TRUE>>} ELSE {<<1>>, <<2>>}
ActionTags == {"macro", "remap"}

\* What gremlin.util.joystick_devices() can return.
Stick == [device_id |-> 1, hardware_id |-> 1, windows_id |-> 0,
          name |-> "stick", is_virtual |-> FALSE]
Throttle == [device_id |-> 3, hardware_id |-> 2, windows_id |-> 1,
             name |-> "throttle", is_virtual |-> FALSE]
VJoy == [device_id |-> 4, hardware_id |-> 4, windows_id |-> 2,
         name |-> "vJoy Device", is_virtual |-> TRUE]
LiveLists == {<<>>, <<Stick>>, <<Stick, Throttle>>, <<VJoy, Throttle>>}
\* What gremlin.util.mode_list(device) can return.
ModeLists == {<<"global">>, <<"global", "alt">>}

\* The keys and values of the variable registry.
Modules == {"a.py", "b.py"}
Instances == {"Default", "New Instance"}
Labels == {"x", "y"}
StoredValues == {NumVal(Num(15)), NumVal(5), StrVal("15"), StrVal("abc")}
\* The declared default_value, min_value and max_value of a variable.
Declared == {None, Some(Num(12)), Some(Num(0 - 2))}
\* The "identifier" global of the module declaring a variable.
\* The declared <<min_value, max_value>> of a variable.
Ranges == {<<None, None>>, <<None, Some(Num(0 - 2))>>,
           <<Some(Num(0 - 2)), Some(Num(12))>>,
           <<Some(Num(12)), Some(Num(0 - 2))>>}
Identifiers == {None, Some(<<"a.py", "Default">>), Some(<<"b.py", "Default">>)}

\* Documents written by hand (not by to_xml).
EmptyDoc == [devices |-> <<>>, imports |-> <<>>]
ImportsDoc == [devices |-> <<>>, imports |-> <<"a.py", "a.py">>]
StickDoc ==
    [devices |-> <<
        [name |-> Some("stick"), id |-> "1", windows_id |-> "0",
         modes |-> <<
            [name |-> "global",
             items |-> <<[tag |-> "button", id |-> Some("1"),
                          extended |-> None, always_execute |-> Some("True"),
                          actions |-> <<"macro">>]>>]>>]>>,
     imports |-> <<"a.py">>]
SampleDocs == {EmptyDoc, ImportsDoc, StickDoc}

(***************************************************************************)
(* History                                                                 *)
(***************************************************************************)
\* op         the last call
\* args       the arguments of the registry, variable and clamp_value calls
\* edits      the number of calls that changed the devices by hand
\* sets       the number of registry set calls
\* doc_src    Some(the devices to_xml wrote the document from), else None
\* before     the devices before the last from_xml
\* fresh      the last from_xml ran on a Profile that held nothing
\* prev_load  Some(file, live, mode_list) of the last from_xml when only
\*            modes were added by hand since, else None
\* repeat     the last from_xml repeated prev_load
\* reg_before the registry before the last call
\* shadow     (module, instance, label) -> the value of the last set since
\*            the last clear
\* stale      the triples whose stored value predates the last from_xml
\* from_registry  the last variable constructed took a stored value
NoHist ==
    [op |-> "init", args |-> <<>>, edits |-> 0, sets |-> 0, doc_src |-> None,
     before |-> <<>>, fresh |-> FALSE, prev_load |-> None, repeat |-> FALSE,
     reg_before |-> <<>>, shadow |-> <<>>, stale |-> {},
     from_registry |-> FALSE, printed |-> <<>>]

\* The history after a call that is no from_xml and no hand-added mode.
Called(op) ==
    [hist EXCEPT !.op = op, !.args = <<>>, !.prev_load = None,
                 !.repeat = FALSE, !.before = <<>>, !.fresh = FALSE,
                 !.reg_before = registry, !.from_registry = FALSE]
Edited(op) ==
    [Called(op) EXCEPT !.edits = IF devices' # devices THEN @ + 1 ELSE @]

(***************************************************************************)
(* Actions on the profile                                                  *)
(***************************************************************************)
TheMode(key, mname) == DictGet(DictGet(devices, key).modes, mname)
WithMode(key, mname, mode) ==
    DictSet(devices, key,
            [DictGet(devices, key) EXCEPT !.modes = DictSet(@, mname, mode)])
HasMode(key, mname) ==
    DictHas(devices, key) /\ DictHas(DictGet(devices, key).modes, mname)
HasItem(key, mname, t, i) ==
    HasMode(key, mname) /\ DictHas(TheMode(key, mname).config[t], i)
\* The bound on the growth of the profile: a call that can change the devices
\* is taken only while fewer than MaxEdits calls changed them.
CanEdit(changes) == changes => hist.edits < MaxEdits

\* profile.get_device_modes(hardware_id, device_name)
GetDeviceModes(hardware_id, device_name) ==
    /\ CanEdit(~DictHas(devices, hardware_id))
    /\ devices' = Profile_get_device_modes(devices, hardware_id, device_name)
    /\ ret' = Some(DictGet(devices', hardware_id))
    /\ exc' = "none"
    /\ hist' = [Edited("get_device_modes") EXCEPT
            !.args = <<hardware_id, device_name>>, !.before = devices,
            !.repeat = (hist.op = "get_device_modes"
                        /\ hist.args = <<hardware_id, device_name>>)]
    /\ UNCHANGED <<imports, doc, registry, variable, modules>>

\* mode.get_data(t, i) on the mode mname of the device stored under key
GetData(key, mname, t, i) ==
    /\ HasMode(key, mname)
    /\ CanEdit(~HasItem(key, mname, t, i))
    /\ \E mode \in {Mode_get_data(TheMode(key, mname), t, i)} :
           /\ devices' = WithMode(key, mname, mode)
           /\ ret' = Some(DictGet(mode.config[t], i))
    /\ exc' = "none"
    /\ hist' = [Edited("get_data") EXCEPT
            !.args = <<key, mname, t, i>>, !.before = devices,
            !.repeat = (hist.op = "get_data"
                        /\ hist.args = <<key, mname, t, i>>)]
    /\ UNCHANGED <<imports, doc, registry, variable, modules>>

\* mode.set_data(t, i, data)
SetData(key, mname, t, i, data) ==
    /\ HasMode(key, mname)
    /\ CanEdit(TRUE)
    /\ devices' = WithMode(key, mname,
                           Mode_set_data(TheMode(key, mname), t, i, data))
    /\ ret' = None
    /\ exc' = "none"
    /\ hist' = Edited("set_data")
    /\ UNCHANGED <<imports, doc, registry, variable, modules>>

\* mode.delete_data(t, i)
DeleteData(key, mname, t, i) ==
    /\ HasMode(key, mname)
    /\ CanEdit(HasItem(key, mname, t, i))
    /\ \E r \in {Mode_delete_data(TheMode(key, mname), t, i)} :
           /\ devices' = IF r.exc = "none" THEN WithMode(key, mname, r.val)
                         ELSE devices
           /\ exc' = r.exc
    /\ ret' = None
    /\ hist' = Edited("delete_data")
    /\ UNCHANGED <<imports, doc, registry, variable, modules>>

\* item.always_execute = b on an item of the profile
SetAlwaysExecute(key, mname, t, i, b) ==
    /\ HasItem(key, mname, t, i)
    /\ CanEdit(DictGet(TheMode(key, mname).config[t], i).always_execute # b)
    /\ devices' = WithMode(key, mname,
            [TheMode(key, mname) EXCEPT !.config[t] =
                DictSet(@, i, [DictGet(@, i) EXCEPT !.always_execute = b])])
    /\ ret' = None
    /\ exc' = "none"
    /\ hist' = Edited("always_execute")
    /\ UNCHANGED <<imports, doc, registry, variable, modules>>

\* item.actions.append(action) on an item of the profile
AppendAction(key, mname, t, i, tag) ==
    /\ HasItem(key, mname, t, i)
    /\ Len(DictGet(TheMode(key, mname).config[t], i).actions) < MaxActions
    /\ CanEdit(TRUE)
    /\ devices' = WithMode(key, mname,
            [TheMode(key, mname) EXCEPT !.config[t] =
                DictSet(@, i, [DictGet(@, i) EXCEPT
                                  !.actions = Append(@, tag)])])
    /\ ret' = None
    /\ exc' = "none"
    /\ hist' = Edited("append_action")
    /\ UNCHANGED <<imports, doc, registry, variable, modules>>

\* device.modes[mname] = Mode(device), its name set: a mode added by hand
AddMode(key, mname) ==
    /\ DictHas(devices, key) /\ ~HasMode(key, mname)
    /\ CanEdit(TRUE)
    /\ devices' = WithMode(key, mname, NewMode(mname))
    /\ ret' = None
    /\ exc' = "none"
    /\ hist' = [hist EXCEPT !.op = "add_mode", !.args = <<>>,
                            !.edits = @ + 1, !.repeat = FALSE,
                            !.before = <<>>, !.fresh = FALSE,
                            !.reg_before = registry, !.from_registry = FALSE]
    /\ UNCHANGED <<imports, doc, registry, variable, modules>>

\* profile = Profile()
NewProfile ==
    /\ devices # <<>> \/ imports # <<>>
    /\ devices' = <<>>
    /\ imports' = <<>>
    /\ ret' = None
    /\ exc' = "none"
    /\ hist' = Called("Profile")
    /\ UNCHANGED <<doc, registry, variable, modules>>

\* profile.to_xml(fname)
ToXml ==
    /\ \E r \in {Profile_to_xml(devices, imports)} :
           /\ doc' = IF r.exc = "none" THEN Some(r.val) ELSE doc
           /\ exc' = r.exc
           /\ hist' = [Called("to_xml") EXCEPT
                          !.doc_src = IF r.exc = "none" THEN Some(devices)
                                      ELSE hist.doc_src]
    /\ ret' = None
    /\ UNCHANGED <<devices, imports, registry, variable, modules>>

\* a document written to fname by other means
WriteDocument(d) ==
    /\ doc # Some(d)
    /\ doc' = Some(d)
    /\ ret' = None
    /\ exc' = "none"
    /\ hist' = [Called("write_document") EXCEPT !.doc_src = None]
    /\ UNCHANGED <<devices, imports, registry, variable, modules>>

\* The triples the registry holds a value for.
RegistryTriples(reg) ==
    {<<m, n, k>> \in (DOMAIN reg) \X Instances \X Labels :
        n \in DOMAIN reg[m] /\ k \in DOMAIN reg[m][n]}

\* profile.from_xml(fname), with the devices attached and the mode list
\* gremlin.util supplies
FromXml(live, mode_list) ==
    /\ \E r \in {Profile_from_xml(devices, imports, doc, live, mode_list)} :
           /\ r.exc = "none" => Len(r.val.imports) <= MaxImports
           /\ devices' = IF r.exc = "none" THEN r.val.devices ELSE devices
           /\ imports' = IF r.exc = "none" THEN r.val.imports ELSE imports
           /\ exc' = r.exc
    /\ ret' = None
    /\ hist' = [hist EXCEPT
            !.op = "from_xml", !.args = <<>>,
            !.before = devices,
            !.fresh = (devices = <<>> /\ imports = <<>>),
            !.repeat = (hist.prev_load = Some(<<doc, live, mode_list>>)),
            !.prev_load = Some(<<doc, live, mode_list>>),
            !.reg_before = registry, !.from_registry = FALSE,
            !.stale = RegistryTriples(registry)]
    /\ UNCHANGED <<doc, registry, variable, modules>>

Init ==
    /\ devices = <<>>
    /\ imports = <<>>
    /\ modules = <<>>
    /\ doc = None
    /\ registry = <<>>
    /\ variable = None
    /\ ret = None
    /\ exc = "none"
    /\ hist = NoHist

\* The slots (device key, mode name, input type, input id) to edit.
Slots ==
    {<<k, m, t, i>> \in DictKeys(devices) \X ModeNames \X EditTypes
                        \X {<<1>>, <<2>>, <<30, TRUE>>} : i \in InputIds(t)}

\* Editing, saving and loading a profile.
Next ==
    \/ \E h \in HardwareIds, n \in DeviceNames : GetDeviceModes(h, n)
    \/ \E s \in Slots : GetData(s[1], s[2], s[3], s[4])
    \/ \E s \in Slots : DeleteData(s[1], s[2], s[3], s[4])
    \/ \E s \in Slots : \E j \in InputIds(s[3]) :
         SetData(s[1], s[2], s[3], s[4],
                 [NewInputItem(s[3], j) EXCEPT !.actions = <<"remap">>])
    \/ \E s \in Slots, b \in BOOLEAN :
         SetAlwaysExecute(s[1], s[2], s[3], s[4], b)
    \/ \E s \in Slots, a \in ActionTags :
         AppendAction(s[1], s[2], s[3], s[4], a)
    \/ \E k \in DictKeys(devices), m \in ModeNames : AddMode(k, m)
    \/ NewProfile
    \/ ToXml
    \/ \E live \in {<<>>, <<Stick>>} : FromXml(live, <<"global">>)

Spec == Init /\ [][Next]_vars

\* Loading documents against the devices attached.
ReconcileNext ==
    \/ \E h \in HardwareIds : GetDeviceModes(h, Some("stick"))
    \/ \E k \in DictKeys(devices), m \in ModeNames : AddMode(k, m)
    \/ NewProfile
    \/ \E d \in SampleDocs : WriteDocument(d)
    \/ \E live \in LiveLists, ml \in ModeLists : FromXml(live, ml)

ReconcileSpec == Init /\ [][ReconcileNext]_vars

(***************************************************************************)
(* Actions on the variable registry and the variables                      *)
(***************************************************************************)
\* variable_registry.set(module, name, key, value)
RegistrySet(module, name, key, value) ==
    /\ hist.sets < MaxSets
    /\ registry' = Registry_set(registry, module, name, key, value)
    /\ ret' = None
    /\ exc' = "none"
    /\ variable' = None
    /\ hist' = [Called("set") EXCEPT
            !.args = <<module, name, key>>, !.sets = @ + 1,
            !.shadow = FunSet(@, <<module, name, key>>, value),
            !.stale = @ \ {<<module, name, key>>}]
    /\ UNCHANGED <<devices, imports, doc, modules>>

\* variable_registry.get(module, name, key)
RegistryGet(module, name, key) ==
    /\ \E g \in {Registry_get(registry, module, name, key)} :
           /\ registry' = g.registry
           /\ ret' = g.ret
    /\ exc' = "none"
    /\ variable' = None
    /\ hist' = [Called("get") EXCEPT !.args = <<module, name, key>>]
    /\ UNCHANGED <<devices, imports, doc, modules>>

\* variable_registry.clear()
RegistryClear ==
    /\ registry' = Registry_clear
    /\ ret' = None
    /\ exc' = "none"
    /\ variable' = None
    /\ hist' = [Called("clear") EXCEPT !.shadow = <<>>, !.stale = {}]
    /\ UNCHANGED <<devices, imports, doc, modules>>

\* IntegerVariable(label, description, default_value, min_value, max_value)
\* or FloatVariable(...) in a module whose "identifier" global is identifier
ConstructNumerical(variable_type, label, default_value, min_value, max_value, identifier) ==
    /\ \E r \in {NumericalVariable_init(variable_type, label, default_value,
                                        min_value, max_value, registry,
                                        identifier)} :
           /\ registry' = r.registry
           /\ variable' = IF r.exc = "none" THEN Some(r.var) ELSE None
           /\ exc' = r.exc
           /\ hist' = [Called("construct") EXCEPT
                   !.args = <<variable_type, label, default_value, min_value,
                              max_value, identifier>>,
                   !.from_registry = r.from_registry]
    /\ ret' = None
    /\ UNCHANGED <<devices, imports, doc, modules>>

\* clamp_value(value, min_val, max_val) on the arguments Init drew
ClampValue ==
    /\ hist.op = "init"
    /\ ret' = Some(clamp_value(hist.args[1], hist.args[2], hist.args[3]))
    /\ exc' = "none"
    /\ hist' = [hist EXCEPT !.op = "clamp_value"]
    /\ UNCHANGED <<devices, imports, doc, registry, variable, modules>>

\* The registry on its own.
RegistryNext ==
    \/ \E m \in Modules, n \in Instances, k \in Labels, v \in StoredValues :
         RegistrySet(m, n, k, v)
    \/ \E m \in Modules, n \in Instances, k \in Labels : RegistryGet(m, n, k)
    \/ RegistryClear

RegistrySpec == Init /\ [][RegistryNext]_vars

\* Variables hydrated from the registry, across profile loads.
VariableInit ==
    /\ devices = <<>>
    /\ imports = <<>>
    /\ modules = <<>>
    /\ doc = Some(EmptyDoc)
    /\ registry = <<>>
    /\ variable = None
    /\ ret = None
    /\ exc = "none"
    /\ hist = NoHist

VariableNext ==
    \/ \E k \in Labels, v \in StoredValues :
         RegistrySet("a.py", "Default", k, v)
    \/ RegistryClear
    \/ \E t \in {"Int", "Float"}, d \in Declared, r \in Ranges,
          id \in Identifiers :
         ConstructNumerical(t, "x", d, r[1], r[2], id)
    \/ FromXml(<<Stick>>, <<"global">>)

VariableSpec == VariableInit /\ [][VariableNext]_vars

\* clamp_value on its own.
ClampInit ==
    /\ devices = <<>>
    /\ imports = <<>>
    /\ modules = <<>>
    /\ doc = None
    /\ registry = <<>>
    /\ variable = None
    /\ ret = None
    /\ exc = "none"
    /\ hist \in {[NoHist EXCEPT !.args = <<v, a, b>>] :
                    v \in (0 - 2 * MaxNum)..(2 * MaxNum),
                    a \in (0 - MaxNum)..MaxNum, b \in (0 - MaxNum)..MaxNum}

ClampNext == ClampValue

ClampSpec == ClampInit /\ [][ClampNext]_vars

\* The input elements a document can hold: tag, id, extended and
\* always-execute attributes (None when absent) and the tags of the children.
ItemTags == {"button", "key", "wheel"}
ItemIds == {None, Some("1"), Some("x")}
ItemExtended == {None, Some("True"), Some("0"), Some("2")}
ItemAlwaysExecute == {None, Some("true"), Some("yes")}
ChildTags == {"macro", "remap", "warp"}
ChildLists == UNION {[1..n -> ChildTags] : n \in 0..(MaxActions + 1)}
ItemNodes ==
    [tag : ItemTags, id : ItemIds, extended : ItemExtended,
     always_execute : ItemAlwaysExecute, actions : ChildLists]

\* item = InputItem(mode); item.from_xml(node) on the element Init drew
ParseItem ==
    /\ hist.op = "init"
    /\ \E r \in {InputItem_from_xml(hist.args[1])} :
           /\ ret' = IF r.exc = "none" THEN Some(r.val) ELSE None
           /\ exc' = r.exc
           /\ hist' = [hist EXCEPT
                   !.op = "InputItem.from_xml",
                   !.printed = IF r.exc = "none"
                               THEN InputItem_unknown_nodes(hist.args[1])
                               ELSE <<>>]
    /\ UNCHANGED <<devices, imports, doc, registry, variable, modules>>

\* InputItem.from_xml on its own.
ParseInit ==
    /\ devices = <<>>
    /\ imports = <<>>
    /\ modules = <<>>
    /\ doc = None
    /\ registry = <<>>
    /\ variable = None
    /\ ret = None
    /\ exc = "none"
    /\ hist \in {[NoHist EXCEPT !.args = <<node>>] : node \in ItemNodes}

ParseNext == ParseItem

ParseSpec == ParseInit /\ [][ParseNext]_vars

\* The globals of a custom module: variables (label, and the line that
\* declares them) and one value that is no variable.
ModuleGlobals ==
    {[is_variable |-> TRUE, label |-> "x", line |-> 1],
     [is_variable |-> TRUE, label |-> "x", line |-> 2],
     [is_variable |-> TRUE, label |-> "y", line |-> 3],
     [is_variable |-> FALSE, label |-> "", line |-> 4]}
ModuleContents == UNION {[1..n -> ModuleGlobals] : n \in 0..MaxGlobals}

\* get_variable_definitions(fname) on the module Init drew
GetVariableDefinitions ==
    /\ hist.op = "init"
    /\ \E r \in {get_variable_definitions(hist.args[1], hist.args[2])} :
           /\ ret' = IF r.exc = "none" THEN Some(r.val) ELSE None
           /\ exc' = r.exc
    /\ hist' = [hist EXCEPT !.op = "get_variable_definitions"]
    /\ UNCHANGED <<devices, imports, doc, registry, variable, modules>>

\* get_variable_definitions on its own.
ExtractInit ==
    /\ devices = <<>>
    /\ imports = <<>>
    /\ modules = <<>>
    /\ doc = None
    /\ registry = <<>>
    /\ variable = None
    /\ ret = None
    /\ exc = "none"
    /\ hist \in {[NoHist EXCEPT !.args = <<isfile, values>>] :
                    isfile \in BOOLEAN, values \in ModuleContents}

ExtractNext == GetVariableDefinitions

ExtractSpec == ExtractInit /\ [][ExtractNext]_vars

\* The state after a constructor ran with result r.
Constructed(r, args) ==
    /\ registry' = r.registry
    /\ variable' = IF r.exc = "none" THEN Some(r.var) ELSE None
    /\ exc' = r.exc
    /\ ret' = None
    /\ hist' = [Called("construct") EXCEPT
            !.args = args, !.from_registry = r.from_registry]
    /\ UNCHANGED <<devices, imports, doc, modules>>

\* StringVariable(label, description, default_value)
ConstructString(label, default_value, identifier) ==
    \E r \in {StringVariable_init(label, default_value, registry, identifier)} :
       Constructed(r, <<"String", label, default_value, None, None, identifier>>)

\* ModeVariable(label, description)
ConstructMode(label, identifier) ==
    \E r \in {ModeVariable_init(label, registry, identifier)} :
       Constructed(r, <<"Mode", label, None, None, None, identifier>>)

\* PhysicalInputVariable(label, description)
ConstructPhysicalInput(label, identifier) ==
    \E r \in {PhysicalInputVariable_init(label, registry, identifier)} :
       Constructed(r, <<"PhysicalInput", label, None, None, None, identifier>>)

\* The variables of every type, hydrated from the registry.
HydrateNext ==
    \/ \E v \in StoredValues : RegistrySet("a.py", "Default", "x", v)
    \/ RegistryClear
    \/ \E t \in {"Int", "Float"}, d \in Declared, id \in Identifiers :
         ConstructNumerical(t, "x", d, None, None, id)
    \/ \E id \in Identifiers, d \in {None, Some(StrVal("abc"))} :
         ConstructString("x", d, id)
    \/ \E id \in Identifiers : ConstructMode("x", id)
    \/ \E id \in Identifiers : ConstructPhysicalInput("x", id)

HydrateSpec == Init /\ [][HydrateNext]_vars

\* Editing a profile in memory.
EditNext ==
    \/ \E h \in HardwareIds, n \in DeviceNames : GetDeviceModes(h, n)
    \/ \E s \in Slots : GetData(s[1], s[2], s[3], s[4])
    \/ \E s \in Slots : DeleteData(s[1], s[2], s[3], s[4])
    \/ \E s \in Slots : \E j \in InputIds(s[3]) :
         SetData(s[1], s[2], s[3], s[4],
                 [NewInputItem(s[3], j) EXCEPT !.actions = <<"remap">>])
    \/ \E s \in Slots, b \in BOOLEAN :
         SetAlwaysExecute(s[1], s[2], s[3], s[4], b)
    \/ \E k \in DictKeys(devices), m \in ModeNames : AddMode(k, m)
    \/ NewProfile

EditSpec == Init /\ [][EditNext]_vars

(***************************************************************************)
(* ui/module_management.py: ModuleManagementController                     *)
(***************************************************************************)
MaxInstances == 3    \* instances one module holds at most

\* gremlin.profile.Module(parent) and gremlin.profile.Instance(parent), as
\* the controller uses them: a file name with a list of instances, a name
\* with a dict label -> variable.
ModuleData(file_name) == [file_name |-> file_name, instances |-> <<>>]
InstanceData(name) == [name |-> name, variables |-> <<>>]

\* The module files on disk and the globals executing each of them gives:
\* a.py declares an integer "x" and a string "y", b.py is no file, c.py
\* declares the label "x" twice.
ModuleFile(fname) ==
    LET IntX(line) ==
            [is_variable |-> TRUE, label |-> "x", line |-> line,
             numerical |-> TRUE, variable_type |-> "Int",
             default_value |-> NumVal(Num(1))]
        StrY(line) ==
            [is_variable |-> TRUE, label |-> "y", line |-> line,
             numerical |-> FALSE, variable_type |-> "String",
             default_value |-> StrVal("abc")]
    IN  IF fname = "a.py"
        THEN [isfile |-> TRUE, values |-> <<IntX(1), StrY(2)>>]
        ELSE IF fname = "c.py"
        THEN [isfile |-> TRUE, values |-> <<IntX(1), IntX(2)>>]
        ELSE [isfile |-> FALSE, values |-> <<>>]

\* The loop of _create_module_instance over the variables of the module:
\* instance.get_variable(label) and the three assignments, for the
\* numerical variables.
RECURSIVE populate_instance(_, _)
populate_instance(instance, variables) ==
    IF variables = <<>> THEN instance
    ELSE populate_instance(
            IF Head(variables).numerical
            THEN [instance EXCEPT !.variables =
                    DictSet(@, Head(variables).label,
                            [name |-> Head(variables).label,
                             type |-> Head(variables).variable_type,
                             value |-> Head(variables).default_value])]
            ELSE instance,
            Tail(variables))

\* _create_module_instance(name, module_data): the module with the new
\* instance appended, and the instance.
create_module_instance(name, module_data) ==
    Try(get_variable_definitions(ModuleFile(module_data.file_name).isfile,
                                 ModuleFile(module_data.file_name).values),
        LAMBDA variables :
            Ok([module |->
                    [module_data EXCEPT !.instances =
                        Append(@, populate_instance(InstanceData(name),
                                                    variables))],
                instance |-> populate_instance(InstanceData(name),
                                               variables)]))

\* new_module(fname) on the module list mods: the module list after it.
new_module(fname, mods) ==
    IF fname = "" THEN Ok(mods)
    ELSE IF \E i \in 1..Len(mods) : mods[i].file_name = fname THEN Ok(mods)
    ELSE Try(create_module_instance("Default", ModuleData(fname)),
             LAMBDA r : Ok(Append(mods, r.module)))

\* create_new_module_instance(module_widget, module_data), module_data being
\* the m-th module.
create_new_module_instance(m, mods) ==
    Try(create_module_instance("New Instance", mods[m]),
        LAMBDA r : Ok([mods EXCEPT ![m] = r.module]))

\* remove_instance(instance, widget), instance being the i-th of the m-th
\* module.
remove_instance(m, i, mods) ==
    [mods EXCEPT ![m].instances =
        [k \in 1..(Len(@) - 1) |-> IF k < i THEN @[k] ELSE @[k + 1]]]

\* rename_instance(instance, widget, name)
rename_instance(m, i, name, mods) ==
    [mods EXCEPT ![m].instances[i].name = name]

\* The names a user types when renaming an instance.
InstanceNames == Instances \cup {"Left"}

\* The instances of the module list: (m, i) is the i-th of the m-th module.
InstanceRefs ==
    {<<m, i>> \in (1..Len(modules)) \X (1..MaxInstances) :
        i <= Len(modules[m].instances)}

NewModule(fname) ==
    /\ \E r \in {new_module(fname, modules)} :
           /\ modules' = IF r.exc = "none" THEN r.val ELSE modules
           /\ exc' = r.exc
    /\ ret' = None
    /\ hist' = [Called("new_module") EXCEPT !.args = <<fname>>]
    /\ UNCHANGED <<devices, imports, doc, registry, variable>>

CreateNewModuleInstance(m) ==
    /\ Len(modules[m].instances) < MaxInstances
    /\ \E r \in {create_new_module_instance(m, modules)} :
           /\ modules' = IF r.exc = "none" THEN r.val ELSE modules
           /\ exc' = r.exc
    /\ ret' = None
    /\ hist' = [Called("create_new_module_instance") EXCEPT !.args = <<m>>]
    /\ UNCHANGED <<devices, imports, doc, registry, variable>>

RemoveInstance(m, i) ==
    /\ modules' = remove_instance(m, i, modules)
    /\ ret' = None
    /\ exc' = "none"
    /\ hist' = [Called("remove_instance") EXCEPT !.args = <<m, i>>]
    /\ UNCHANGED <<devices, imports, doc, registry, variable>>

RenameInstance(m, i, name) ==
    /\ modules' = rename_instance(m, i, name, modules)
    /\ ret' = None
    /\ exc' = "none"
    /\ hist' = [Called("rename_instance") EXCEPT !.args = <<m, i, name>>]
    /\ UNCHANGED <<devices, imports, doc, registry, variable>>

\* The module management controller on a profile without modules.
ModuleNext ==
    \/ \E fname \in {"a.py", "b.py", "c.py", ""} : NewModule(fname)
    \/ \E m \in 1..Len(modules) : CreateNewModuleInstance(m)
    \/ \E r \in InstanceRefs : RemoveInstance(r[1], r[2])
    \/ \E r \in InstanceRefs, name \in InstanceNames :
         RenameInstance(r[1], r[2], name)

ModuleSpec == Init /\ [][ModuleNext]_vars

(***************************************************************************)
(* Properties of saving, loading and reconciliation                        *)
(***************************************************************************)
\* The arguments of the last from_xml: the live devices and the mode list.
LoadedLive == Val(hist.prev_load)[2]
LoadedModeList == Val(hist.prev_load)[3]
LiveIds(live) == {live[i].device_id : i \in 1..Len(live)}

\* C1: loading the document to_xml wrote of a profile into a new profile,
\* with no live device attached, succeeds and yields the devices (keys,
\* fields, modes, items, flags, action lists) of the profile that was saved.
C1_RoundTrip ==
    (/\ hist.op = "from_xml"
     /\ hist.fresh
     /\ ~IsNone(hist.doc_src)
     /\ LoadedLive = <<>>)
    => (exc = "none" /\ devices = Val(hist.doc_src))

\* C2: after from_xml every device the profile held before the call is
\* still stored under its key, unchanged, with all its modes, whatever the
\* live device list is.
C2_ReconcileAdditive ==
    hist.op = "from_xml"
    => \A i \in 1..Len(hist.before) :
          /\ DictHas(devices, hist.before[i][1])
          /\ DictGet(devices, hist.before[i][1]) = hist.before[i][2]

\* C2: a load that added a device while the profile held a device that is
\* not attached and one that is.
C2_AddedBesideUnattached ==
    /\ hist.op = "from_xml" /\ exc = "none"
    /\ Len(devices) > Len(hist.before)
    /\ DictKeys(hist.before) \ LiveIds(LoadedLive) # {}
    /\ DictKeys(hist.before) \cap LiveIds(LoadedLive) # {}

\* C3: after from_xml of an existing document every live non-virtual device
\* has an entry and no virtual one got an entry; an entry the call created has
\* the live device's name, hardware_id and windows_id, type Joystick and a
\* mode for every name of the mode list.
C3_LiveDevicesPresent ==
    (hist.op = "from_xml" /\ ~IsNone(doc))
    => \A i \in 1..Len(LoadedLive) :
          LET dev == LoadedLive[i] IN
          IF dev.is_virtual
          THEN DictHas(devices, dev.device_id)
               => DictHas(hist.before, dev.device_id)
          ELSE /\ DictHas(devices, dev.device_id)
               /\ ~DictHas(hist.before, dev.device_id)
                  => LET d == DictGet(devices, dev.device_id) IN
                     /\ d.name = Some(dev.name)
                     /\ d.hardware_id = Some(dev.hardware_id)
                     /\ d.windows_id = Some(dev.windows_id)
                     /\ d.type = Some("Joystick")
                     /\ \A j \in 1..Len(LoadedModeList) :
                           DictHas(d.modes, LoadedModeList[j])

\* C4: a second from_xml on the same profile, with the same document, live
\* devices and mode list, only modes added by hand in between, leaves the
\* devices and their modes as they were before it: what the first run
\* produced, and the modes added by hand.
C4_ReconcileIdempotent ==
    (hist.op = "from_xml" /\ hist.repeat) => devices = hist.before

\* C4: a second run that succeeded on a device the first run created, which
\* holds a mode that is not of the mode list.
C4_SecondRunKeepsHandAdded ==
    /\ hist.op = "from_xml" /\ hist.repeat /\ exc = "none"
    /\ \E i \in 1..Len(devices) :
          /\ devices[i][1] \in LiveIds(LoadedLive)
          /\ devices[i][2].type = Some("Joystick")
          /\ \E m \in DictKeys(devices[i][2].modes) :
                \A j \in 1..Len(LoadedModeList) : LoadedModeList[j] # m

(***************************************************************************)
(* Properties of the variable registry and the numeric variables           *)
(***************************************************************************)
Triples == Modules \X Instances \X Labels
\* The value the calls made so far stored for a triple, None when none did.
Shadow(t) == IF t \in DOMAIN hist.shadow THEN hist.shadow[t] ELSE None
\* What the registry holds for a triple, read without changing anything.
Stored(reg, t) ==
    IF t[1] \in DOMAIN reg /\ t[2] \in DOMAIN reg[t[1]]
       /\ t[3] \in DOMAIN reg[t[1]][t[2]]
    THEN reg[t[1]][t[2]][t[3]] ELSE None

\* C5: a get leaves the registry exactly as it was before the call, and
\* returns None for a key that was absent.
C5_GetCreatesNothing ==
    hist.op = "get"
    => /\ registry = hist.reg_before
       /\ IsNone(Stored(hist.reg_before, hist.args)) => IsNone(ret)

\* C6: at every point get(m, i, k) returns, for every triple, the value of
\* the last set of that triple since the last clear, and None when there is
\* none; the last get returned just that.
C6_GetReturnsLastSet ==
    /\ \A t \in Triples : Registry_get(registry, t[1], t[2], t[3]).ret = Shadow(t)
    /\ hist.op = "get" => ret = Shadow(hist.args)
    /\ hist.op = "clear" => \A t \in Triples : IsNone(Stored(registry, t))

\* C6: a get that returned a value after two sets of its triple, the only
\* triple set so far.
C6_GetAfterOverwrite ==
    /\ hist.op = "get" /\ ~IsNone(ret)
    /\ hist.sets >= 2
    /\ DOMAIN hist.shadow = {hist.args}

\* The triple a constructed variable is hydrated from.
HydratedTriple == <<Val(hist.args[6])[1], Val(hist.args[6])[2], hist.args[2]>>

\* C7: a variable constructed after a profile was loaded never takes a value
\* that was stored before that load.
C7_NoStaleValue ==
    (hist.op = "construct" /\ hist.from_registry)
    => HydratedTriple \notin hist.stale

\* C8: the value of a constructed IntegerVariable or FloatVariable lies
\* between the smaller and the larger of its min_value and max_value.
C8_ValueWithinBounds ==
    (hist.op = "construct" /\ ~IsNone(variable))
    => LET v == Val(variable)
           lo == Val(v.min_value)
           hi == Val(v.max_value)
       IN  /\ Val(v.value) >= (IF lo < hi THEN lo ELSE hi)
           /\ Val(v.value) <= (IF lo < hi THEN hi ELSE lo)

\* C8: a variable declared with min_value > max_value whose stored value lies
\* above both, and so took its min_value.
C8_StoredAboveSwappedRange ==
    /\ hist.op = "construct" /\ ~IsNone(variable) /\ hist.from_registry
    /\ Val(Val(variable).min_value) > Val(Val(variable).max_value)
    /\ Stored(registry, HydratedTriple) = NumVal(Num(15))
    /\ Val(variable).value = Val(variable).min_value

\* C9: clamp_value(v, a, b) = clamp_value(v, b, a), and the result is v when
\* v is in [min(a, b), max(a, b)], the lower bound when v is below and the
\* upper bound when v is above.
C9_ClampSymmetric ==
    hist.op = "clamp_value"
    => LET v == hist.args[1]
           a == hist.args[2]
           b == hist.args[3]
           lo == IF a < b THEN a ELSE b
           hi == IF a < b THEN b ELSE a
       IN  /\ Val(ret) = clamp_value(v, b, a)
           /\ (lo <= v /\ v <= hi) => Val(ret) = v
           /\ v < lo => Val(ret) = lo
           /\ v > hi => Val(ret) = hi

\* C9: a call with swapped bounds and a value above both.
C9_ClampedSwapped ==
    /\ hist.op = "clamp_value"
    /\ hist.args[2] > hist.args[3] /\ hist.args[1] > hist.args[2]
    /\ Val(ret) = hist.args[2]

\* C10: a constructed IntegerVariable keeps each declared field and has
\* default_value 0, min_value 0, max_value 10 for the undeclared ones; declared
\* with none of them and with 15 stored for its triple, its value is 10.
C10_IntegerDefaults ==
    (hist.op = "construct" /\ hist.args[1] = "Int" /\ ~IsNone(variable))
    => LET v == Val(variable) IN
       /\ v.default_value = IF IsNone(hist.args[3]) THEN Some(Num(0))
                            ELSE hist.args[3]
       /\ v.min_value = IF IsNone(hist.args[4]) THEN Some(Num(0))
                        ELSE hist.args[4]
       /\ v.max_value = IF IsNone(hist.args[5]) THEN Some(Num(10))
                        ELSE hist.args[5]
       /\ (/\ IsNone(hist.args[3]) /\ IsNone(hist.args[4])
           /\ IsNone(hist.args[5]) /\ ~IsNone(hist.args[6])
           /\ Stored(registry, HydratedTriple) = NumVal(Num(15)))
          => v.value = Some(Num(10))

\* C10: an IntegerVariable declared with no field, 15 stored, value 10.
C10_FifteenClampedToTen ==
    /\ hist.op = "construct" /\ hist.args[1] = "Int" /\ ~IsNone(variable)
    /\ IsNone(hist.args[3]) /\ IsNone(hist.args[4]) /\ IsNone(hist.args[5])
    /\ ~IsNone(hist.args[6])
    /\ Stored(registry, HydratedTriple) = NumVal(Num(15))
    /\ Val(variable).value = Some(Num(10))

(***************************************************************************)
(* Properties of the calls that edit a profile                             *)
(***************************************************************************)
\* The item a mode of the devices devs holds in a slot <<key, mode, t, i>>.
SlotHas(devs, a) ==
    /\ DictHas(devs, a[1]) /\ DictHas(DictGet(devs, a[1]).modes, a[2])
    /\ DictHas(DictGet(DictGet(devs, a[1]).modes, a[2]).config[a[3]], a[4])
SlotItem(devs, a) ==
    DictGet(DictGet(DictGet(devs, a[1]).modes, a[2]).config[a[3]], a[4])

\* C11: get_data(t, i) returns the item the mode holds for (t, i) after the
\* call; on a slot that was empty this is a new item with type t, id i, no
\* action and always_execute False, and nothing else changed; on a slot that
\* held an item the call returns that item and changes nothing, so a call
\* repeated at once returns the same item and leaves the mode unchanged.
C11_GetDataIdempotent ==
    hist.op = "get_data"
    => /\ SlotHas(devices, hist.args)
       /\ ret = Some(SlotItem(devices, hist.args))
       /\ IF SlotHas(hist.before, hist.args)
          THEN /\ devices = hist.before
               /\ ret = Some(SlotItem(hist.before, hist.args))
          ELSE /\ Val(ret) = [input_type |-> hist.args[3],
                              input_id |-> hist.args[4],
                              always_execute |-> FALSE, actions |-> <<>>]
               /\ devices = DictSet(hist.before, hist.args[1],
                     [DictGet(hist.before, hist.args[1]) EXCEPT !.modes =
                        DictSet(@, hist.args[2],
                           [DictGet(@, hist.args[2]) EXCEPT
                              !.config[hist.args[3]] =
                                 Append(@, <<hist.args[4], Val(ret)>>)])])
       /\ hist.repeat => SlotHas(hist.before, hist.args)

\* C11: a get_data repeated at once on a slot its first call filled.
C11_RepeatedGetData ==
    /\ hist.op = "get_data" /\ hist.repeat
    /\ devices = hist.before
    /\ Val(ret).actions = <<>> /\ ~Val(ret).always_execute
    /\ Val(ret).input_id = hist.args[4]

\* A device holds a mode under "global" whose name is "global".
HasGlobal(device) ==
    /\ DictHas(device.modes, "global")
    /\ DictGet(device.modes, "global").name = "global"

\* C12: every device of the profile has a mode "global" named "global", and
\* so has every Device that Device.from_xml populates from a device element
\* of the document.
C12_GlobalModeAlways ==
    /\ \A i \in 1..Len(devices) : HasGlobal(devices[i][2])
    /\ ~IsNone(doc) =>
          \A n \in 1..Len(Val(doc).devices) :
             \E r \in {Device_from_xml(Val(doc).devices[n])} :
                r.exc = "none" => HasGlobal(r.val)

\* C12: a profile that holds a device get_device_modes created, with a mode
\* added by hand, and one the reconciliation created, next to a document
\* with a device element.
C12_DevicesOfEveryOrigin ==
    /\ \E i \in 1..Len(devices) :
          IsNone(devices[i][2].windows_id) /\ Len(devices[i][2].modes) > 1
    /\ \E i \in 1..Len(devices) : ~IsNone(devices[i][2].windows_id)
    /\ ~IsNone(doc) /\ Val(doc).devices # <<>>

\* C13: get_device_modes(hardware_id, device_name) returns the device stored
\* under hardware_id; when there was none it is a new one with that
\* hardware_id and name, type Keyboard exactly for the name "keyboard", and
\* only the empty mode "global"; when there was one nothing changes, so a
\* call repeated at once returns the same device and changes nothing.
C13_GetDeviceModesIdempotent ==
    hist.op = "get_device_modes"
    => /\ DictHas(devices, hist.args[1])
       /\ ret = Some(DictGet(devices, hist.args[1]))
       /\ IF DictHas(hist.before, hist.args[1])
          THEN /\ devices = hist.before
               /\ ret = Some(DictGet(hist.before, hist.args[1]))
          ELSE /\ Val(ret).name = hist.args[2]
               /\ Val(ret).hardware_id = Some(hist.args[1])
               /\ Val(ret).type = (IF hist.args[2] = Some("keyboard")
                                   THEN Some("Keyboard") ELSE Some("Joystick"))
               /\ Val(ret).modes =
                     <<<<"global", [name |-> "global",
                                    config |-> [t \in InputTypeSet |-> <<>>]]>>>>
               /\ devices = Append(hist.before, <<hist.args[1], Val(ret)>>)
       /\ hist.repeat => DictHas(hist.before, hist.args[1])

\* C13: a call repeated at once for a keyboard, in a profile that holds a
\* second device.
C13_RepeatedGetDeviceModes ==
    /\ hist.op = "get_device_modes" /\ hist.repeat
    /\ devices = hist.before
    /\ Val(ret).type = Some("Keyboard")
    /\ Len(devices) = 2

(***************************************************************************)
(* Properties of parsing an input element                                  *)
(***************************************************************************)
\* C14: whether InputItem.from_xml returns does not depend on the children
\* of the element; when it returns, actions holds the children with a known
\* tag in document order, the ones with an unknown tag are left out, and one
\* line is printed for each of them.
C14_UnknownActionSkipped ==
    hist.op = "InputItem.from_xml"
    => /\ exc = InputItem_from_xml([hist.args[1] EXCEPT !.actions = <<>>]).exc
       /\ exc = "none"
          => /\ Val(ret).actions =
                   SelectSeq(hist.args[1].actions, LAMBDA a : a # "warp")
             /\ hist.printed =
                   SelectSeq(hist.args[1].actions, LAMBDA a : a = "warp")

\* C14: an element parsed with an unknown child between two known ones.
C14_UnknownBetweenKnown ==
    /\ hist.op = "InputItem.from_xml" /\ exc = "none"
    /\ hist.args[1].actions = <<"macro", "warp", "remap">>
    /\ Val(ret).actions = <<"macro", "remap">>
    /\ hist.printed = <<"warp">>

(***************************************************************************)
(* Properties of hydrating a variable                                      *)
(***************************************************************************)
\* The variable the last construction would have built in a module without
\* an identifier: its value is the (clamped) default.
DefaultedVariable ==
    NumericalVariable_init(hist.args[1], hist.args[2], hist.args[3],
                           hist.args[4], hist.args[5], registry, None).var

\* C15: the construction of a numeric variable whose triple holds a value
\* that int() or float() cannot cast (the string "abc") does not fail, and
\* the variable's value is the one its default gives.
C15_UncastableFallsBack ==
    (/\ hist.op = "construct" /\ ~IsNone(hist.args[6])
     /\ Stored(registry, HydratedTriple) = StrVal("abc"))
    => /\ exc = "none"
       /\ ~IsNone(variable)
       /\ Val(variable).value = DefaultedVariable.value

(***************************************************************************)
(* Properties of get_variable_definitions                                  *)
(***************************************************************************)
\* The labels of the variables among the globals of a module.
LabelsOf(values) ==
    {values[i].label : i \in {j \in 1..Len(values) : values[j].is_variable}}

\* C16: get_variable_definitions on a module file returns normally, also
\* when two variables share a label, with one entry per distinct label and
\* an entry for every label of the module.
C16_DuplicateLabelKept ==
    (hist.op = "get_variable_definitions" /\ hist.args[1])
    => /\ exc = "none"
       /\ ~IsNone(ret)
       /\ LabelsOf(Val(ret)) = LabelsOf(hist.args[2])
       /\ Len(Val(ret)) = Cardinality(LabelsOf(hist.args[2]))

\* A document with one device "stick" whose mode "global" holds the element.
DocWith(node) ==
    [devices |-> <<[name |-> Some("stick"), id |-> "1", windows_id |-> "0",
                    modes |-> <<[name |-> "global", items |-> <<node>>]>>]>>,
     imports |-> <<>>]

\* C17: a key element whose id, always-execute and extended attributes parse
\* gives the input_id <<id, extended>>; a key element without extended gives
\* no item: from_xml raises, ProfileError when the attributes before it
\* parse, and so does the load of a document that holds the element.
C17_KeyboardPair ==
    (hist.op = "InputItem.from_xml" /\ hist.args[1].tag = "key")
    => LET node == hist.args[1] IN
       /\ exc = "none"
          => /\ Val(ret).input_type = "Keyboard"
             /\ node.id = Some("1") /\ Val(ret).input_id[1] = 1
             /\ node.extended \in {Some("True"), Some("0")}
             /\ Val(ret).input_id[2] = (node.extended = Some("True"))
       /\ IsNone(node.extended)
          => /\ exc # "none"
             /\ (node.id = Some("1") /\ node.always_execute # Some("yes"))
                => /\ exc = "ProfileError"
                   /\ Profile_from_xml(<<>>, <<>>, Some(DocWith(node)), <<>>,
                                       <<"global">>).exc = "ProfileError"

\* C17: a key element with id 1 and extended True parsed to <<1, TRUE>>.
C17_KeyParsed ==
    /\ hist.op = "InputItem.from_xml" /\ exc = "none"
    /\ hist.args[1].tag = "key"
    /\ hist.args[1].extended = Some("True")
    /\ Val(ret).input_id = <<1, TRUE>>

\* C18: every entry of profile.devices is stored under its device's
\* hardware_id, so no two entries have the same hardware_id.
C18_KeyIsHardwareId ==
    \A i \in 1..Len(devices) : devices[i][2].hardware_id = Some(devices[i][1])

\* C19: after a from_xml that returned, no module path occurs twice in
\* profile.imports, and every path of the document is in it.
C19_ImportsDeduplicated ==
    (hist.op = "from_xml" /\ exc = "none")
    => /\ \A i, j \in 1..Len(imports) : imports[i] = imports[j] => i = j
       /\ \A k \in 1..Len(Val(doc).imports) :
             \E i \in 1..Len(imports) : imports[i] = Val(doc).imports[k]

\* C20: a variable of any type constructed with an identifier whose triple
\* holds no value is built, and its value is its default_value (for a numeric
\* variable the clamped one): the value it has without an identifier.
C20_AbsentValueGivesDefault ==
    (/\ hist.op = "construct" /\ ~IsNone(hist.args[6])
     /\ IsNone(Stored(registry, HydratedTriple)))
    => /\ exc = "none"
       /\ ~IsNone(variable)
       /\ Val(variable).value =
             IF hist.args[1] \in {"Int", "Float"}
             THEN DefaultedVariable.value
             ELSE Val(variable).default_value

(***************************************************************************)
(* Properties of the module management controller                          *)
(***************************************************************************)
\* C21: after any sequence of new_module, create_new_module_instance,
\* rename_instance and remove_instance, the instances of one module have
\* pairwise distinct names, so the pair (module file, instance name) names
\* exactly one instance.
C21_InstanceNamesDistinct ==
    \A m \in 1..Len(modules) :
        \A i, j \in 1..Len(modules[m].instances) :
            modules[m].instances[i].name = modules[m].instances[j].name
                => i = j

====
